---------------------------- MODULE Spec2Model ----------------------------
(***************************************************************************)
(* Model of the IELTS writing rating service (src/app.py).                 *)
(*                                                                         *)
(* Texts (the submission's model identifier and response, the upstream     *)
(* reply, JSON keys and string values) are sequences of one-character      *)
(* strings, so that lower-casing, whitespace splitting, slicing, the       *)
(* regular-expression search and JSON decoding are computed character by   *)
(* character as the Python code computes them.                             *)
(***************************************************************************)
EXTENDS Integers, Sequences, FiniteSets, TLC

(***************************************************************************)
(* Characters and small helpers                                            *)
(***************************************************************************)

\* The characters str.split() with no argument treats as separators.
PyWhitespace == {" ", "\t", "\n", "\r"}

\* The characters the JSON decoder skips between tokens.
JsonWhitespace == {" ", "\t", "\n", "\r"}

DigitChars == <<"0","1","2","3","4","5","6","7","8","9">>

DigitSet == {DigitChars[d] : d \in 1..10}

DigitVal(c) == (CHOOSE d \in 1..10 : DigitChars[d] = c) - 1

UpperChars ==
    <<"A","B","C","D","E","F","G","H","I","J","K","L","M",
      "N","O","P","Q","R","S","T","U","V","W","X","Y","Z">>

LowerChars ==
    <<"a","b","c","d","e","f","g","h","i","j","k","l","m",
      "n","o","p","q","r","s","t","u","v","w","x","y","z">>

\* The one element of a singleton set.
Only(S) == CHOOSE x \in S : TRUE

\* F applied to the value of v0, computed once.
Let(v0, F(_)) == Only({F(v) : v \in {v0}})

SetMin(S0) == Let(S0, LAMBDA S : CHOOSE x \in S : \A y \in S : x <= y)

SetMax(S0) == Let(S0, LAMBDA S : CHOOSE x \in S : \A y \in S : x >= y)

RECURSIVE Pow10(_)
Pow10(n) == IF n = 0 THEN 1 ELSE 10 * Pow10(n - 1)

\* The reading of "absent" for every optional value (Python's None).
None == [none |-> TRUE]

\* What a text-valued local holds before its assignment.
NoText == <<>>

(***************************************************************************)
(* str.lower() and count_words                                             *)
(***************************************************************************)

LowerChar(c) ==
    IF \E k \in 1..26 : UpperChars[k] = c
    THEN LowerChars[CHOOSE k \in 1..26 : UpperChars[k] = c]
    ELSE c

\* submission.model.lower()
Lower(text) == [k \in 1..Len(text) |-> LowerChar(text[k])]

\* text.split() from index k on: skip the separators, take the run of other
\* characters as one word, and go on after it.
RECURSIVE SplitFrom(_, _, _)
SplitFrom(text, k, acc) ==
    Let({a \in k..Len(text) : text[a] \notin PyWhitespace}, LAMBDA rest :
        IF rest = {}
        THEN acc
        ELSE Let(SetMin(rest), LAMBDA a :
             Let(SetMin({b \in a..Len(text) : b = Len(text) \/ text[b + 1] \in PyWhitespace}),
                 LAMBDA b : SplitFrom(text, b + 1, Append(acc, SubSeq(text, a, b))))))

\* text.split(): the maximal runs of non-whitespace characters, in order.
Split(text) == SplitFrom(text, 1, <<>>)

\* A word counter that counts the separators instead of the words.
count_words_by_separators(text) ==
    Cardinality({k \in 1..Len(text) : text[k] \in PyWhitespace})

count_words(text) == Len(Split(text))

(***************************************************************************)
(* re.search(r'({[\s\S]*})', text)                                         *)
(***************************************************************************)

\* The leftmost match starts at the first "{"; [\s\S]* is greedy, so the match
\* ends at the last "}" of the text.  No "}" after the first "{" means no "}"
\* after any later "{" either: no match.
RegexSearch(text) ==
    Let({k \in 1..Len(text) : text[k] = "{"}, LAMBDA opens :
        IF opens = {}
        THEN None
        ELSE Let(SetMin(opens), LAMBDA a :
             Let({k \in (a + 1)..Len(text) : text[k] = "}"}, LAMBDA closes :
                 IF closes = {} THEN None ELSE [from |-> a, to |-> SetMax(closes)])))

(***************************************************************************)
(* json.loads: values are tagged records                                   *)
(*   [k |-> "num", m, e]   the number m * 10^-e, e minimal                  *)
(*   [k |-> "str", s]      s a sequence of characters                      *)
(*   [k |-> "bool", b]  [k |-> "null"]                                     *)
(*   [k |-> "obj", items]  items a sequence of [key, val], in text order   *)
(*   [k |-> "arr", items]  items a sequence of values                      *)
(* Exponents and \u escapes are not decoded: no text of the model holds an *)
(* "e" after a digit or a backslash-u.                                     *)
(***************************************************************************)

RECURSIVE NormNum(_, _)
NormNum(m, e) ==
    IF e > 0 /\ m % 10 = 0 THEN NormNum(m \div 10, e - 1) ELSE [k |-> "num", m |-> m, e |-> e]

JStr(s) == [k |-> "str", s |-> s]

JNull == [k |-> "null"]

JBool(b) == [k |-> "bool", b |-> b]

JObj(items) == [k |-> "obj", items |-> items]

JArr(items) == [k |-> "arr", items |-> items]

Ok(v, pos) == [ok |-> TRUE, val |-> v, pos |-> pos]

Err(type, msg) == [ok |-> FALSE, type |-> type, msg |-> msg]

JsonErr(msg) == Err("JSONDecodeError", msg)

\* The first index >= i that holds no JSON whitespace (Len(s) + 1 when none).
SkipWs(s, i) ==
    SetMin({j \in i..(Len(s) + 1) : j = Len(s) + 1 \/ s[j] \notin JsonWhitespace})

\* The end (exclusive) of the run of digits that starts at i.
ScanDigits(s, i) ==
    SetMin({j \in i..(Len(s) + 1) : j = Len(s) + 1 \/ s[j] \notin DigitSet})

\* The value of the digits s[a..b-1].
RECURSIVE DigitsValue(_, _, _)
DigitsValue(s, a, b) ==
    IF a >= b THEN 0 ELSE DigitsValue(s, a, b - 1) * 10 + DigitVal(s[b - 1])

\* The number that starts at i (NUMBER_RE: -?(0|[1-9]\d*)(\.\d+)?).
ScanNumber(s, i) ==
    Let(IF s[i] = "-" THEN i + 1 ELSE i, LAMBDA j :
        IF j > Len(s) \/ s[j] \notin DigitSet
        THEN JsonErr("Expecting value")
        ELSE Let(IF s[j] = "0" THEN j + 1 ELSE ScanDigits(s, j), LAMBDA intEnd :
             Let(/\ intEnd + 1 <= Len(s)
                 /\ s[intEnd] = "."
                 /\ s[intEnd + 1] \in DigitSet, LAMBDA hasFrac :
             Let(IF hasFrac THEN ScanDigits(s, intEnd + 1) ELSE intEnd, LAMBDA fracEnd :
             Let(IF hasFrac THEN fracEnd - (intEnd + 1) ELSE 0, LAMBDA nfrac :
             Let(DigitsValue(s, j, intEnd) * Pow10(nfrac)
                 + (IF hasFrac THEN DigitsValue(s, intEnd + 1, fracEnd) ELSE 0), LAMBDA mag :
                 Ok(NormNum(IF s[i] = "-" THEN 0 - mag ELSE mag, nfrac), fracEnd)))))))

EscapeChar(c) ==
    CASE c = "n" -> "\n"
      [] c = "t" -> "\t"
      [] c = "r" -> "\r"
      [] OTHER -> c

\* The characters that end a chunk of a string: the quote, the backslash and
\* the control characters (STRINGCHUNK).
StringStops == {"\"", "\\", "\n", "\t", "\r"}

\* The string whose opening quote is just before i (py_scanstring, strict):
\* chunk by chunk, each chunk ended by the closing quote or by an escape.
RECURSIVE ScanString(_, _, _)
ScanString(s, i, acc) ==
    Let({k \in i..Len(s) : s[k] \in StringStops}, LAMBDA stops :
        IF stops = {}
        THEN JsonErr("Unterminated string starting at")
        ELSE Let(SetMin(stops), LAMBDA k :
                 IF s[k] = "\""
                 THEN Ok(acc \o SubSeq(s, i, k - 1), k + 1)
                 ELSE IF s[k] # "\\"
                 THEN JsonErr("Invalid control character at")
                 ELSE IF k + 1 > Len(s)
                 THEN JsonErr("Unterminated string starting at")
                 ELSE IF s[k + 1] \in {"\"", "\\", "/", "n", "t", "r"}
                 THEN ScanString(s, k + 2,
                                 Append(acc \o SubSeq(s, i, k - 1), EscapeChar(s[k + 1])))
                 ELSE JsonErr("Invalid \\escape")))

IsLiteral(s, i, lit) ==
    i + Len(lit) - 1 <= Len(s) /\ SubSeq(s, i, i + Len(lit) - 1) = lit

RECURSIVE ScanValue(_, _)
RECURSIVE ScanMembers(_, _, _)
RECURSIVE ScanElements(_, _, _)

\* JSONObject: i is just after "{".
ScanObject(s, i) ==
    Let(SkipWs(s, i), LAMBDA j :
        IF j <= Len(s) /\ s[j] = "}" THEN Ok(JObj(<<>>), j + 1) ELSE ScanMembers(s, j, <<>>))

\* JSONArray: i is just after "[".
ScanArray(s, i) ==
    Let(SkipWs(s, i), LAMBDA j :
        IF j <= Len(s) /\ s[j] = "]" THEN Ok(JArr(<<>>), j + 1) ELSE ScanElements(s, j, <<>>))

\* One member of an object: "key" : value, and the whitespace after it.
ScanMember(s, j) ==
    IF j > Len(s) \/ s[j] # "\""
    THEN JsonErr("Expecting property name enclosed in double quotes")
    ELSE Let(ScanString(s, j + 1, <<>>), LAMBDA key :
         IF ~key.ok THEN key ELSE
         Let(SkipWs(s, key.pos), LAMBDA c :
         IF c > Len(s) \/ s[c] # ":"
         THEN JsonErr("Expecting ':' delimiter")
         ELSE Let(ScanValue(s, SkipWs(s, c + 1)), LAMBDA v :
              IF ~v.ok THEN v
              ELSE Ok([key |-> key.val, val |-> v.val], SkipWs(s, v.pos)))))

\* The members of an object from j on, each followed by "," or "}".
ScanMembers(s, j, acc) ==
    Let(ScanMember(s, j), LAMBDA m :
        IF ~m.ok THEN m
        ELSE IF m.pos > Len(s)
        THEN JsonErr("Expecting ',' delimiter")
        ELSE IF s[m.pos] = "}"
        THEN Ok(JObj(Append(acc, m.val)), m.pos + 1)
        ELSE IF s[m.pos] = ","
        THEN ScanMembers(s, SkipWs(s, m.pos + 1), Append(acc, m.val))
        ELSE JsonErr("Expecting ',' delimiter"))

\* The elements of an array from j on, each followed by "," or "]".
ScanElements(s, j, acc) ==
    Let(ScanValue(s, j), LAMBDA v :
        IF ~v.ok THEN v ELSE
        Let(SkipWs(s, v.pos), LAMBDA n :
            IF n > Len(s)
            THEN JsonErr("Expecting ',' delimiter")
            ELSE IF s[n] = "]"
            THEN Ok(JArr(Append(acc, v.val)), n + 1)
            ELSE IF s[n] = ","
            THEN ScanElements(s, SkipWs(s, n + 1), Append(acc, v.val))
            ELSE JsonErr("Expecting ',' delimiter")))

\* scan_once: the value that starts at i.
ScanValue(s, i0) ==
    Let(i0, LAMBDA i :
        IF i > Len(s)
        THEN JsonErr("Expecting value")
        ELSE IF s[i] = "\"" THEN Let(ScanString(s, i + 1, <<>>), LAMBDA r :
                                     IF r.ok THEN Ok(JStr(r.val), r.pos) ELSE r)
        ELSE IF s[i] = "{" THEN ScanObject(s, i + 1)
        ELSE IF s[i] = "[" THEN ScanArray(s, i + 1)
        ELSE IF IsLiteral(s, i, <<"n","u","l","l">>) THEN Ok(JNull, i + 4)
        ELSE IF IsLiteral(s, i, <<"t","r","u","e">>) THEN Ok(JBool(TRUE), i + 4)
        ELSE IF IsLiteral(s, i, <<"f","a","l","s","e">>) THEN Ok(JBool(FALSE), i + 5)
        ELSE IF s[i] = "-" \/ s[i] \in DigitSet THEN ScanNumber(s, i)
        ELSE JsonErr("Expecting value"))

\* json.loads(s): one value, then nothing but whitespace.
JsonLoads(s0) ==
    Let(s0, LAMBDA s :
    Let(ScanValue(s, SkipWs(s, 1)), LAMBDA r :
        IF ~r.ok THEN r
        ELSE IF SkipWs(s, r.pos) <= Len(s) THEN JsonErr("Extra data")
        ELSE r))

(***************************************************************************)
(* The keys evaluate_with_llm reads, and what str(KeyError(key)) gives     *)
(***************************************************************************)

K_task_achievement ==
    <<"t","a","s","k","_","a","c","h","i","e","v","e","m","e","n","t">>

K_coherence_cohesion ==
    <<"c","o","h","e","r","e","n","c","e","_","c","o","h","e","s","i","o","n">>

K_lexical_resource ==
    <<"l","e","x","i","c","a","l","_","r","e","s","o","u","r","c","e">>

K_grammatical_range ==
    <<"g","r","a","m","m","a","t","i","c","a","l","_","r","a","n","g","e">>

K_overall_score ==
    <<"o","v","e","r","a","l","l","_","s","c","o","r","e">>

K_overall_feedback ==
    <<"o","v","e","r","a","l","l","_","f","e","e","d","b","a","c","k">>

K_score ==
    <<"s","c","o","r","e">>

K_feedback ==
    <<"f","e","e","d","b","a","c","k">>

\* str(KeyError(key)) is repr(key).
KeyErrorText(key) ==
    CASE key = K_task_achievement -> "'task_achievement'"
      [] key = K_coherence_cohesion -> "'coherence_cohesion'"
      [] key = K_lexical_resource -> "'lexical_resource'"
      [] key = K_grammatical_range -> "'grammatical_range'"
      [] key = K_overall_score -> "'overall_score'"
      [] key = K_overall_feedback -> "'overall_feedback'"
      [] key = K_score -> "'score'"
      [] key = K_feedback -> "'feedback'"

(***************************************************************************)
(* Building the DetailedRating (src/app.py lines 155-162)                  *)
(***************************************************************************)

Done(v) == [ok |-> TRUE, val |-> v]

\* container[key]: a dict keeps the last of several equal keys.
GetItem(container, key) ==
    IF container.k = "obj"
    THEN Let({n \in 1..Len(container.items) : container.items[n].key = key}, LAMBDA hits :
             IF hits = {}
             THEN Err("KeyError", KeyErrorText(key))
             ELSE Done(container.items[SetMax(hits)].val))
    ELSE IF container.k = "str"
    THEN Err("TypeError", "string indices must be integers")
    ELSE IF container.k = "arr"
    THEN Err("TypeError", "list indices must be integers or slices, not str")
    ELSE Err("TypeError", "object is not subscriptable")

\* text.strip() of the float() argument.
Strip(text) ==
    Let({n \in 1..Len(text) : text[n] \notin PyWhitespace}, LAMBDA keep :
        IF keep = {} THEN <<>> ELSE SubSeq(text, SetMin(keep), SetMax(keep)))

\* float(str): [sign] digits [. [digits]] or [sign] . digits; the whole string.
\* (The words inf and nan, exponents and underscores are not in any text here.)
FloatOfString(text) ==
    Let(Strip(text), LAMBDA t :
    Let(IF Len(t) >= 1 /\ t[1] \in {"-", "+"} THEN 2 ELSE 1, LAMBDA a :
    Let(ScanDigits(t, a), LAMBDA intEnd :
    Let(intEnd <= Len(t) /\ t[intEnd] = ".", LAMBDA hasDot :
    Let(IF hasDot THEN ScanDigits(t, intEnd + 1) ELSE intEnd, LAMBDA fracEnd :
    Let(IF hasDot THEN fracEnd - (intEnd + 1) ELSE 0, LAMBDA nfrac :
    Let(DigitsValue(t, a, intEnd) * Pow10(nfrac)
        + (IF hasDot THEN DigitsValue(t, intEnd + 1, fracEnd) ELSE 0), LAMBDA mag :
        IF fracEnd = Len(t) + 1 /\ (intEnd - a) + nfrac >= 1
        THEN Done(NormNum(IF a = 2 /\ t[1] = "-" THEN 0 - mag ELSE mag, nfrac))
        ELSE Err("ValueError", "could not convert string to float"))))))))

\* float(v) of a decoded JSON value.
PyFloat(v) ==
    CASE v.k = "num" -> Done(v)
      [] v.k = "bool" -> Done(NormNum(IF v.b THEN 1 ELSE 0, 0))
      [] v.k = "str" -> FloatOfString(v.s)
      [] OTHER -> Err("TypeError", "float() argument must be a string or a real number")

\* A str field of a pydantic model: a string passes, None never does (other
\* types are rejected by pydantic 2 and coerced by pydantic 1; no reply here
\* carries one).
ValidateStr(v) ==
    IF v.k = "str" THEN Done(v.s) ELSE Err("ValidationError", "Input should be a valid string")

Float(n) == [m |-> n.m, e |-> n.e]

\* A criterion whose missing or unusable parts are filled with defaults.
MakeCriterionOrDefault(rating_data, key) ==
    Let(GetItem(rating_data, key), LAMBDA c :
    Let(IF c.ok THEN GetItem(c.val, K_score) ELSE c, LAMBDA sc :
    Let(IF sc.ok THEN PyFloat(sc.val) ELSE sc, LAMBDA f :
    Let(IF c.ok THEN GetItem(c.val, K_feedback) ELSE c, LAMBDA fb :
        Done([score |-> IF f.ok THEN Float(f.val) ELSE [m |-> 0, e |-> 0],
              feedback |-> IF fb.ok /\ fb.val.k = "str" THEN fb.val.s ELSE <<>>])))))

\* Criterion(score=float(rating_data[key]["score"]),
\*           feedback=rating_data[key]["feedback"])
MakeCriterion(rating_data, key) ==
    Let(GetItem(rating_data, key), LAMBDA c :
    IF ~c.ok THEN c ELSE
    Let(GetItem(c.val, K_score), LAMBDA sc :
    IF ~sc.ok THEN sc ELSE
    Let(PyFloat(sc.val), LAMBDA f :
    IF ~f.ok THEN f ELSE
    Let(GetItem(c.val, K_feedback), LAMBDA fb :
    IF ~fb.ok THEN fb ELSE
    Let(ValidateStr(fb.val), LAMBDA str :
    IF ~str.ok THEN str
    ELSE Done([score |-> Float(f.val), feedback |-> str.val]))))))

\* DetailedRating(...): the keyword arguments are evaluated in the order written,
\* and the first exception ends the construction.
MakeRating(rating_data) ==
    Let(MakeCriterion(rating_data, K_task_achievement), LAMBDA ta :
    IF ~ta.ok THEN ta ELSE
    Let(MakeCriterion(rating_data, K_coherence_cohesion), LAMBDA cc :
    IF ~cc.ok THEN cc ELSE
    Let(MakeCriterion(rating_data, K_lexical_resource), LAMBDA lr :
    IF ~lr.ok THEN lr ELSE
    Let(MakeCriterion(rating_data, K_grammatical_range), LAMBDA gr :
    IF ~gr.ok THEN gr ELSE
    Let(GetItem(rating_data, K_overall_score), LAMBDA os :
    IF ~os.ok THEN os ELSE
    Let(PyFloat(os.val), LAMBDA osf :
    IF ~osf.ok THEN osf ELSE
    Let(GetItem(rating_data, K_overall_feedback), LAMBDA ofb :
    IF ~ofb.ok THEN ofb ELSE
    Let(ValidateStr(ofb.val), LAMBDA ofs :
    IF ~ofs.ok THEN ofs
    ELSE Done([task_achievement |-> ta.val,
               coherence_cohesion |-> cc.val,
               lexical_resource |-> lr.val,
               grammatical_range |-> gr.val,
               overall_score |-> Float(osf.val),
               overall_feedback |-> ofs.val])))))))))

\* Lines 147-162: search, decode, build.
ExtractRating(content) ==
    Let(RegexSearch(content), LAMBDA json_match :
        IF json_match = None
        THEN Err("ValueError", "Could not extract JSON from model response")
        ELSE Let(JsonLoads(SubSeq(content, json_match.from, json_match.to)),
                 LAMBDA rating_data :
                     IF ~rating_data.ok THEN rating_data ELSE MakeRating(rating_data.val)))

(***************************************************************************)
(* Line 144 and the two halves of rate_writing                             *)
(***************************************************************************)

PreviewLen == 200

Ellipsis == <<".", ".", ".">>

\* response_content[:200] + "..." if len(response_content) > 200 else response_content
ResponsePreview(content) ==
    IF Len(content) > PreviewLen
    THEN SubSeq(content, 1, PreviewLen) \o Ellipsis
    ELSE content

EmptyDict == [x \in {} |-> None]

\* d[key] = value
DictSet(d, key, value) ==
    [x \in (DOMAIN d) \cup {key} |-> IF x = key THEN value ELSE d[x]]

\* str(e) of the HTTPException raised at line 175, as the installed Starlette
\* renders it: "<status_code>: <detail>" where HTTPException defines __str__,
\* the empty string where it does not (the exception is built from keyword
\* arguments only, so its args are empty).
HTTPExceptionStr(has_str, status_code, detail) ==
    IF has_str
    THEN ToString(status_code) \o ": " \o detail
    ELSE ""

\* The body of a 200 response.  The route declares response_model=RatingResponse
\* (line 169), so the dict rate_writing returns is rendered with the fields of
\* RatingResponse (lines 49-51): rating, and debug_info, which is None when the
\* dict holds no such key.
RatingResponse(resp) ==
    [rating |-> resp.rating,
     debug_info |-> IF "debug_info" \in DOMAIN resp THEN resp.debug_info ELSE None]

Returned(resp) == [kind |-> "return", body |-> RatingResponse(resp)]

Raised(status_code, detail) == [kind |-> "raise", status_code |-> status_code, detail |-> detail]

\* rate_writing without the "rating is None" test.
RateWritingUnchecked(rating, info, debug_mode, has_str) ==
    IF debug_mode
    THEN Returned([rating |-> rating, debug_info |-> info])
    ELSE Returned([rating |-> rating])

\* rate_writing attaching the trace whatever debug_mode says.
RateWritingAlwaysDebug(rating, info, debug_mode, has_str) ==
    IF rating = None
    THEN Raised(500, HTTPExceptionStr(has_str, 500, "LLM evaluation failed."))
    ELSE Returned([rating |-> rating, debug_info |-> info])

\* rate_writing, lines 172-182, from the pair evaluate_with_llm returned.  The
\* HTTPException of line 175 is raised inside the try, so line 180 catches it
\* and line 182 raises a new one whose detail is str() of the first.
RateWriting(rating, info, debug_mode, has_str) ==
    IF rating = None
    THEN Raised(500, HTTPExceptionStr(has_str, 500, "LLM evaluation failed."))
    ELSE IF debug_mode
         THEN Returned([rating |-> rating, debug_info |-> info])
         ELSE Returned([rating |-> rating])

\* Lines 164-167: the except clause of evaluate_with_llm.
EvaluateExcept(info, e) ==
    [rating |-> None, debug_info |-> DictSet(info, "error_message", e.msg)]

(***************************************************************************)
(* The inputs: submissions and what the upstream may answer                *)
(***************************************************************************)

Model_chatGPT ==
    <<"c","h","a","t","G","P","T">>

Model_llama ==
    <<"l","l","a","m","a","3",".","2">>

Model_gpt4 ==
    <<"G","P","T","-","4">>

Name_chatgpt ==
    <<"c","h","a","t","g","p","t">>

Name_llama ==
    <<"l","l","a","m","a","3",".","2">>

FiveWords ==
    <<"T","h","i","s"," ","i","s"," ","f","i","v","e"," ","w","o","r","d","s",".">>

OtherResponse ==
    <<" ","D","e","a","r"," ","S","i","r",",","\n","\n","I"," ","a","m"," "," ","w","r","i","t","i",
      "n","g","\t","t","o"," ","y","o","u","."," ">>

\* WritingSubmission: task_type and question only fill the prompt, which no
\* branch of the service reads back, so a submission is its model and response.
Submissions ==
    [model : {Model_chatGPT, Model_llama, Model_gpt4}, response : {FiveWords, OtherResponse}]

\* A request: the body and the debug_mode query parameter.
Requests == [submission : Submissions, debug_mode : BOOLEAN]

Text_clear ==
    <<"C","l","e","a","r",".">>

Text_good ==
    <<"G","o","o","d",".">>

Text_high ==
    <<"h","i","g","h">>

ProseBefore ==
    <<"H","e","r","e"," ","i","s"," ","m","y"," ","r","a","t","i","n","g",":","\n">>

ProseAfter ==
    <<"\n","G","o","o","d"," ","l","u","c","k","!">>

BraceProseBefore ==
    <<"S","c","o","r","e","s"," ","{","b","a","n","d","}",":"," ">>

BraceProseAfter ==
    <<" ","{","e","n","d","}">>

NoJsonText ==
    <<"I"," ","c","a","n","n","o","t"," ","r","a","t","e"," ","t","h","i","s",".">>

Quoted(text) == <<"\"">> \o text \o <<"\"">>

Member(key, value_text) == Quoted(key) \o <<":", " ">> \o value_text

RECURSIVE JoinMembers(_)
JoinMembers(members) ==
    IF members = <<>> THEN <<>>
    ELSE IF Len(members) = 1 THEN members[1]
    ELSE members[1] \o <<",", " ">> \o JoinMembers(Tail(members))

ObjectText(members) == <<"{">> \o JoinMembers(members) \o <<"}">>

CriterionText(score_text, feedback) ==
    ObjectText(<<Member(K_score, score_text), Member(K_feedback, Quoted(feedback))>>)

\* The object the prompt asks for (lines 96-115), filled in.
StdMembers ==
    << Member(K_task_achievement, CriterionText(<<"6",".","5">>, Text_clear)),
       Member(K_coherence_cohesion, CriterionText(<<"7">>, Text_good)),
       Member(K_lexical_resource, CriterionText(<<"6",".","0">>, Text_clear)),
       Member(K_grammatical_range, CriterionText(<<"5",".","5">>, Text_good)),
       Member(K_overall_score, <<"6",".","5">>),
       Member(K_overall_feedback, Quoted(Text_good)) >>

StdObject == ObjectText(StdMembers)

\* The same object with the scores written as JSON strings.
StringScoreObject ==
    ObjectText(<< Member(K_task_achievement, CriterionText(Quoted(<<"6",".","5">>), Text_clear)),
                  Member(K_coherence_cohesion, CriterionText(Quoted(<<"7">>), Text_good)),
                  Member(K_lexical_resource, CriterionText(Quoted(<<"6",".","0">>), Text_clear)),
                  Member(K_grammatical_range, CriterionText(Quoted(<<"5",".","5">>), Text_good)),
                  Member(K_overall_score, Quoted(<<" ","6",".","5">>)),
                  Member(K_overall_feedback, Quoted(Text_good)) >>)

\* The DetailedRating that matches StdObject, written out by hand.
StdRating ==
    [task_achievement |-> [score |-> [m |-> 65, e |-> 1], feedback |-> Text_clear],
     coherence_cohesion |-> [score |-> [m |-> 7, e |-> 0], feedback |-> Text_good],
     lexical_resource |-> [score |-> [m |-> 6, e |-> 0], feedback |-> Text_clear],
     grammatical_range |-> [score |-> [m |-> 55, e |-> 1], feedback |-> Text_good],
     overall_score |-> [m |-> 65, e |-> 1],
     overall_feedback |-> Text_good]

\* StdObject without its grammatical_range member.
MissingRangeObject ==
    ObjectText(<<StdMembers[1], StdMembers[2], StdMembers[3], StdMembers[5], StdMembers[6]>>)

\* StdObject with a lexical_resource score that is no number.
BadScoreObject ==
    ObjectText(<< StdMembers[1], StdMembers[2],
                  Member(K_lexical_resource, CriterionText(Quoted(Text_high), Text_clear)),
                  StdMembers[4], StdMembers[5], StdMembers[6] >>)

\* StdObject cut off after its fourth member (max_tokens reached).
TruncatedObject == <<"{">> \o JoinMembers(SubSeq(StdMembers, 1, 4)) \o <<",", " ">>

\* The reply texts the upstream may produce.
\*   embedded: the text is prose, one valid object with every field, prose;
\*   braces:   that prose holds "{" or "}";
\*   expect:   the rating of the embedded object (None when there is none).
Replies ==
    << [name |-> "bare", text |-> StdObject,
        embedded |-> TRUE, braces |-> FALSE, expect |-> StdRating],
       [name |-> "padded", text |-> ProseBefore \o StdObject \o ProseAfter,
        embedded |-> TRUE, braces |-> FALSE, expect |-> StdRating],
       [name |-> "string_scores", text |-> ProseBefore \o StringScoreObject,
        embedded |-> TRUE, braces |-> FALSE, expect |-> StdRating],
       [name |-> "brace_padded", text |-> BraceProseBefore \o StdObject \o BraceProseAfter,
        embedded |-> TRUE, braces |-> TRUE, expect |-> StdRating],
       [name |-> "no_json", text |-> NoJsonText,
        embedded |-> FALSE, braces |-> FALSE, expect |-> None],
       [name |-> "missing_range", text |-> ProseBefore \o MissingRangeObject,
        embedded |-> FALSE, braces |-> FALSE, expect |-> None],
       [name |-> "bad_score", text |-> BadScoreObject \o ProseAfter,
        embedded |-> FALSE, braces |-> FALSE, expect |-> None],
       [name |-> "truncated", text |-> ProseBefore \o TruncatedObject,
        embedded |-> FALSE, braces |-> FALSE, expect |-> None] >>

ReplyIds == 1..Len(Replies)

\* What the upstream call of a request does: it returns the text Replies[id],
\* returns a completion whose content is None, or raises.
Backends ==
    {[kind |-> "reply", id |-> n] : n \in ReplyIds}
        \cup {[kind |-> "no_content", id |-> 0], [kind |-> "error", id |-> 0]}

\* Lines 144 and 147-162 on each text the upstream may return.
PreviewOf == [n \in ReplyIds |-> ResponsePreview(Replies[n].text)]

Extraction == [n \in ReplyIds |-> ExtractRating(Replies[n].text)]

\* Lines 144-167 on the reply Replies[n]: the pair evaluate_with_llm returns.
EvaluateReply(info, n) ==
    Let(DictSet(info, "response_preview", PreviewOf[n]), LAMBDA traced :
        IF Extraction[n].ok
        THEN [rating |-> Extraction[n].val, debug_info |-> traced]
        ELSE EvaluateExcept(traced, Extraction[n]))

(***************************************************************************)
(* The service                                                             *)
(*                                                                         *)
(* uvicorn runs one event loop.  rate_writing is a coroutine that never    *)
(* awaits: evaluate_with_llm and the client call inside it are blocking    *)
(* calls, so from accepting a request to sending its response the loop     *)
(* runs that request and nothing else.                                     *)
(***************************************************************************)

NumReqs == 2

Reqs == 1..NumReqs

VARIABLES
    api_key,           \* OPENAI_API_KEY is set (line 21), fixed for the process
    exc_has_str,       \* the installed HTTPException defines __str__
    loop,              \* the request the event loop is running, 0 when idle
    pc,                \* where each request is
    req,               \* the request as posted: submission and debug_mode
    model_name,        \* evaluate_with_llm's locals
    word_count,
    debug_info,
    response_content,
    backend,           \* what the upstream does with this request's call
    calls,             \* upstream calls issued for the request
    response           \* what rate_writing returned or raised

vars ==
    <<api_key, exc_has_str, loop, pc, req, model_name, word_count, debug_info,
      response_content, backend, calls, response>>

Init ==
    /\ api_key \in BOOLEAN
    /\ exc_has_str \in BOOLEAN
    /\ loop = 0
    /\ pc = [i \in Reqs |-> "Idle"]
    /\ req = [i \in Reqs |-> None]
    /\ model_name = [i \in Reqs |-> NoText]
    /\ word_count = [i \in Reqs |-> 0]
    /\ debug_info = [i \in Reqs |-> None]
    /\ response_content = [i \in Reqs |-> None]
    /\ backend = [i \in Reqs |-> None]
    /\ calls = [i \in Reqs |-> 0]
    /\ response = [i \in Reqs |-> None]

\* A client posts a request; it waits in the server's socket, unread, until the
\* loop gets to it.
Arrive(i) ==
    /\ pc[i] = "Idle"
    /\ pc' = [pc EXCEPT ![i] = "Arrived"]
    /\ UNCHANGED <<api_key, exc_has_str, loop, req, model_name, word_count, debug_info,
                   response_content, backend, calls, response>>

\* The loop starts the handler of a waiting request only when it runs none.
CanAccept(i) == pc[i] = "Arrived" /\ loop = 0

\* Lines 169-173: the loop reads the posted body and the debug_mode parameter
\* and starts rate_writing, which calls evaluate_with_llm.
Accept(i) ==
    /\ CanAccept(i)
    /\ \E r \in Requests : req' = [req EXCEPT ![i] = r]
    /\ loop' = i
    /\ pc' = [pc EXCEPT ![i] = "Building"]
    /\ UNCHANGED <<api_key, exc_has_str, model_name, word_count, debug_info,
                   response_content, backend, calls, response>>

\* Lines 66-116: the locals and the prompt.
Build(i) ==
    /\ pc[i] = "Building"
    /\ model_name' = [model_name EXCEPT ![i] = Lower(req[i].submission.model)]
    /\ debug_info' = [debug_info EXCEPT ![i] = EmptyDict]
    /\ word_count' = [word_count EXCEPT ![i] = count_words(req[i].submission.response)]
    /\ pc' = [pc EXCEPT ![i] = "Dispatched"]
    /\ UNCHANGED <<api_key, exc_has_str, loop, req, response_content, backend, calls, response>>

\* An exception reaches line 164: evaluate_with_llm returns (None, debug_info)
\* and rate_writing raises.
Fail(i, dbg, e) ==
    \E result \in {EvaluateExcept(dbg, e)} :
        /\ debug_info' = [debug_info EXCEPT ![i] = result.debug_info]
        /\ response' = [response EXCEPT ![i] =
                            RateWriting(result.rating, result.debug_info,
                                        req[i].debug_mode, exc_has_str)]
        /\ pc' = [pc EXCEPT ![i] = "Failed"]

\* A gateway that sends an unknown identifier to the hosted endpoint.
GatewayBranchDefaultOpenai(name, key_set) ==
    IF name = Name_llama
    THEN Err("NameError", "name 'ollama' is not defined")
    ELSE IF ~key_set
         THEN Err("ValueError", "OPENAI_API_KEY environment variable is not set.")
         ELSE [ok |-> TRUE, do |-> "call_openai"]

\* What lines 120-142 do with the lower-cased identifier:
\*   "call_openai"   line 127 is reached and the hosted endpoint is called,
\*   or the exception raised before any call.
\* The ollama import is commented out (line 11), so evaluating the name
\* ollama at line 138 raises NameError before anything is sent.
GatewayBranch(name, key_set) ==
    IF name = Name_chatgpt
    THEN IF ~key_set
         THEN Err("ValueError", "OPENAI_API_KEY environment variable is not set.")
         ELSE [ok |-> TRUE, do |-> "call_openai"]
    ELSE IF name = Name_llama
    THEN Err("NameError", "name 'ollama' is not defined")
    ELSE Err("ValueError", "Invalid model selection. Choose 'chatGPT' or 'llama3.2'.")

\* The identifier selects a backend (lines 120 and 136).
SelectsBackend(name) == name \in {Name_chatgpt, Name_llama}

\* Lines 119-142 up to the upstream call.  What the selected backend does with
\* this request is drawn here, whether or not the call is then issued.
Gateway(i) ==
    /\ pc[i] = "Dispatched"
    /\ LET branch == GatewayBranch(model_name[i], api_key)
       IN  /\ IF SelectsBackend(model_name[i])
              THEN \E b \in Backends : backend' = [backend EXCEPT ![i] = b]
              ELSE UNCHANGED backend
           /\ IF branch.ok
              THEN /\ calls' = [calls EXCEPT ![i] = @ + 1]
                   /\ pc' = [pc EXCEPT ![i] = "Upstream"]
                   /\ UNCHANGED <<debug_info, response>>
              ELSE /\ Fail(i, debug_info[i], branch)
                   /\ UNCHANGED calls
    /\ UNCHANGED <<api_key, exc_has_str, loop, req, model_name, word_count, response_content>>

\* An upstream step that hands a failed call to the extractor all the same.
UpstreamReturnIgnoringErrors(i) ==
    /\ pc[i] = "Upstream"
    /\ response_content' =
           [response_content EXCEPT ![i] =
               IF backend[i].kind = "error" THEN [kind |-> "no_content", id |-> 0]
               ELSE backend[i]]
    /\ pc' = [pc EXCEPT ![i] = "ExtractionPending"]
    /\ UNCHANGED <<api_key, exc_has_str, loop, req, model_name, word_count, debug_info,
                   backend, calls, response>>

\* The blocking call returns (lines 134 and 139) or raises.
UpstreamReturn(i) ==
    /\ pc[i] = "Upstream"
    /\ IF backend[i].kind = "error"
       THEN /\ Fail(i, debug_info[i], Err("APIConnectionError", "Connection error."))
            /\ UNCHANGED response_content
       ELSE /\ response_content' = [response_content EXCEPT ![i] = backend[i]]
            /\ pc' = [pc EXCEPT ![i] = "ExtractionPending"]
            /\ UNCHANGED <<debug_info, response>>
    /\ UNCHANGED <<api_key, exc_has_str, loop, req, model_name, word_count, backend, calls>>

\* Lines 144-162 and, with the pair they return, lines 174-182.
Extract(i) ==
    /\ pc[i] = "ExtractionPending"
    /\ IF response_content[i].kind = "no_content"
       THEN Fail(i, debug_info[i], Err("TypeError", "object of type 'NoneType' has no len()"))
       ELSE \E result \in {EvaluateReply(debug_info[i], response_content[i].id)} :
                /\ debug_info' = [debug_info EXCEPT ![i] = result.debug_info]
                /\ response' = [response EXCEPT ![i] =
                                    RateWriting(result.rating, result.debug_info,
                                                req[i].debug_mode, exc_has_str)]
                /\ pc' = [pc EXCEPT ![i] =
                              IF result.rating = None THEN "Failed" ELSE "Succeeded"]
    /\ UNCHANGED <<api_key, exc_has_str, loop, req, model_name, word_count,
                   response_content, backend, calls>>

\* The response is sent; the request's frame and data are gone and the loop is
\* free again.  Nothing of a request outlives it.
Respond(i) ==
    /\ pc[i] \in {"Succeeded", "Failed"}
    /\ loop = i
    /\ loop' = 0
    /\ req' = [req EXCEPT ![i] = None]
    /\ model_name' = [model_name EXCEPT ![i] = NoText]
    /\ word_count' = [word_count EXCEPT ![i] = 0]
    /\ debug_info' = [debug_info EXCEPT ![i] = None]
    /\ response_content' = [response_content EXCEPT ![i] = None]
    /\ backend' = [backend EXCEPT ![i] = None]
    /\ response' = [response EXCEPT ![i] = None]
    /\ UNCHANGED <<api_key, exc_has_str, pc, calls>>

Next ==
    \E i \in Reqs :
        \/ Arrive(i)
        \/ Accept(i)
        \/ Build(i)
        \/ Gateway(i)
        \/ UpstreamReturn(i)
        \/ Extract(i)
        \/ Respond(i)

Spec == Init /\ [][Next]_vars

\* The server runs every step of a handler it has started; only the upstream
\* decides when, and whether, its call returns.
ServerStep(i) == Accept(i) \/ Build(i) \/ Gateway(i) \/ Extract(i) \/ Respond(i)

FairSpec == Spec /\ \A i \in Reqs : WF_vars(ServerStep(i))

(***************************************************************************)
(* Properties                                                              *)
(*                                                                         *)
(* A request is "answered" from the step that computes its response until  *)
(* the step that sends it: pc is Succeeded or Failed and the loop still    *)
(* runs the request, so its locals and its response are those of the       *)
(* handler's last line.                                                    *)
(***************************************************************************)

Terminal == {"Succeeded", "Failed"}

Answered(i) == pc[i] \in Terminal /\ loop = i

\* The handler of request i is past line 68: its locals are assigned.
Built(i) == loop = i /\ pc[i] # "Building"

\* The upstream call of request i returned a text.
GotReply(i) == response_content[i] # None /\ response_content[i].kind = "reply"

ReplyOf(i) == Replies[response_content[i].id]

CriterionKeys == {"task_achievement", "coherence_cohesion", "lexical_resource",
                  "grammatical_range"}

\* A DetailedRating with every field present: four criteria of a score and a
\* feedback text, the overall score and the overall feedback.
FullyPopulated(r) ==
    /\ DOMAIN r = CriterionKeys \cup {"overall_score", "overall_feedback"}
    /\ \A c \in CriterionKeys :
           /\ DOMAIN r[c] = {"score", "feedback"}
           /\ DOMAIN r[c].score = {"m", "e"}
    /\ DOMAIN r.overall_score = {"m", "e"}

\* C1: every answered request ends in exactly one of two ways: rate_writing
\* returns a body that holds a rating (and that rating is a DetailedRating,
\* never None), or it raises and returns no rating; never both, never neither.
C1_RatingXorFailure ==
    \A i \in Reqs :
        Answered(i) =>
            /\ response[i] # None
            /\ \/ /\ pc[i] = "Succeeded"
                  /\ response[i].kind = "return"
                  /\ "rating" \in DOMAIN response[i].body
                  /\ response[i].body.rating # None
               \/ /\ pc[i] = "Failed"
                  /\ response[i].kind = "raise"
                  /\ DOMAIN response[i] = {"kind", "status_code", "detail"}

\* C1 witness: one request has been answered with a failure after its upstream
\* call, and another one is answered with a rating.
C1_Witness ==
    \E i, j \in Reqs :
        /\ pc[i] = "Failed" /\ calls[i] = 1 /\ loop # i
        /\ Answered(j) /\ pc[j] = "Succeeded" /\ response[j].kind = "return"

\* C2: a request whose identifier is one of the two recognized ones (whatever
\* its case), with the credential configured and an upstream that answers with
\* nothing but the well-formed object, ends in success with the rating of that
\* object.
C2_RecognizedModelSucceeds ==
    \A i \in Reqs :
        /\ Answered(i)
        /\ api_key
        /\ SelectsBackend(model_name[i])
        /\ backend[i].kind = "reply"
        /\ Replies[backend[i].id].name = "bare"
        => /\ pc[i] = "Succeeded"
           /\ response[i].kind = "return"
           /\ response[i].body.rating = Replies[backend[i].id].expect

\* C3: a request whose lower-cased identifier is neither "chatgpt" nor
\* "llama3.2" never issues an upstream call, never reaches the upstream or the
\* extractor, and is answered with a failure whose recorded error is the
\* invalid-model-selection message.
C3_UnknownModelNeverCalls ==
    \A i \in Reqs :
        Built(i) /\ ~SelectsBackend(model_name[i]) =>
            /\ calls[i] = 0
            /\ backend[i] = None
            /\ pc[i] \in {"Dispatched", "Failed"}
            /\ pc[i] = "Failed" =>
                   /\ response[i].kind = "raise"
                   /\ debug_info[i]["error_message"]
                          = "Invalid model selection. Choose 'chatGPT' or 'llama3.2'."

\* C3 witness: a request posted with the identifier "GPT-4" is answered with a
\* failure and has issued no call.
C3_Witness ==
    \E i \in Reqs :
        /\ Answered(i) /\ pc[i] = "Failed" /\ calls[i] = 0
        /\ req[i].submission.model = Model_gpt4
        /\ model_name[i] \notin {Name_chatgpt, Name_llama}

\* C4: whenever the upstream's text is prose, one valid object with every
\* field, prose (braces in the prose or not), the request succeeds with the
\* rating of that object.
C4_EmbeddedObjectRecovered ==
    \A i \in Reqs :
        Answered(i) /\ GotReply(i) /\ ReplyOf(i).embedded =>
            /\ pc[i] = "Succeeded"
            /\ response[i].body.rating = ReplyOf(i).expect

\* C5: a reply with no "{" fails with the ValueError of line 151, a reply whose
\* object lacks grammatical_range fails with KeyError('grammatical_range'), and
\* every reply that does not carry a complete valid object is answered with a
\* failure; a rating that is returned has every field.
C5_NoPartialRating ==
    \A i \in Reqs :
        Answered(i) /\ GotReply(i) =>
            /\ ReplyOf(i).name = "no_json" =>
                   /\ pc[i] = "Failed"
                   /\ Extraction[response_content[i].id].type = "ValueError"
                   /\ debug_info[i]["error_message"]
                          = "Could not extract JSON from model response"
            /\ ReplyOf(i).name = "missing_range" =>
                   /\ pc[i] = "Failed"
                   /\ Extraction[response_content[i].id].type = "KeyError"
                   /\ debug_info[i]["error_message"] = "'grammatical_range'"
            /\ ~ReplyOf(i).embedded =>
                   /\ pc[i] = "Failed"
                   /\ response[i].kind = "raise"
            /\ pc[i] = "Succeeded" => FullyPopulated(response[i].body.rating)

\* C5 witness: a reply whose object lacks grammatical_range has been answered
\* with a failure.
C5_Witness ==
    \E i \in Reqs :
        /\ Answered(i) /\ GotReply(i)
        /\ ReplyOf(i).name = "missing_range"
        /\ response[i].kind = "raise"

\* C6: the trace always holds the preview line 144 describes (the whole reply
\* up to 200 characters, else its first 200 characters and "..."); a successful
\* answer carries the trace when debug_mode is true and no trace (debug_info is
\* None) when it is false, and its rating is the rating of the reply's object
\* whatever debug_mode is.
C6_DebugTrace ==
    \A i \in Reqs :
        Answered(i) /\ GotReply(i) =>
            /\ debug_info[i]["response_preview"]
                   = IF Len(ReplyOf(i).text) <= 200
                     THEN ReplyOf(i).text
                     ELSE SubSeq(ReplyOf(i).text, 1, 200) \o <<".", ".", ".">>
            /\ pc[i] = "Succeeded" =>
                   /\ response[i].body.rating = ReplyOf(i).expect
                   /\ ~req[i].debug_mode => response[i].body.debug_info = None
                   /\ req[i].debug_mode => response[i].body.debug_info = debug_info[i]

\* C6 witness: a successful answer with debug_mode true whose reply is longer
\* than 200 characters, so that the returned preview is cut and marked.
C6_Witness ==
    \E i \in Reqs :
        /\ Answered(i) /\ pc[i] = "Succeeded" /\ req[i].debug_mode
        /\ Len(ReplyOf(i).text) > 200
        /\ Len(response[i].body.debug_info["response_preview"]) = 203

\* C7: the detail of the failure the caller receives is the description of the
\* error that occurred (the one evaluate_with_llm recorded as error_message).
C7_FailureCarriesDescription ==
    \A i \in Reqs :
        Answered(i) /\ pc[i] = "Failed" =>
            response[i].detail = debug_info[i]["error_message"]

\* C8 as the specification states it: the word count computed for the text
\* "This is five words." is 5.
C8_FiveWordsCountsFive ==
    \A i \in Reqs :
        /\ pc[i] \in {"Dispatched", "Upstream", "ExtractionPending"}
        /\ req[i].submission.response = FiveWords
        => word_count[i] = 5

\* C8 as the code computes it: the word count computed for the text
\* "This is five words." is 4.
C8_FiveWordsCountsFour ==
    \A i \in Reqs :
        /\ pc[i] \in {"Dispatched", "Upstream", "ExtractionPending"}
        /\ req[i].submission.response = FiveWords
        => word_count[i] = 4

\* C8 witness: the prompt of a request with that text has been built.
C8_Witness ==
    \E i \in Reqs :
        /\ pc[i] = "Dispatched"
        /\ req[i].submission.response = FiveWords
        /\ word_count[i] = 4

\* C9: while the upstream call of one request is waiting for its reply, another
\* request that has arrived can be accepted.
C9_WaitingDoesNotBlock ==
    \A i, j \in Reqs :
        i # j /\ pc[i] = "Upstream" /\ pc[j] = "Arrived" => CanAccept(j)

\* The steps a request may take, the states of the specification's machine
\* being: Building, Dispatched (here Dispatched up to the call and Upstream
\* while it waits), ExtractionPending, Succeeded, Failed.
Transitions ==
    { <<"Idle", "Arrived">>, <<"Arrived", "Building">>, <<"Building", "Dispatched">>,
      <<"Dispatched", "Upstream">>, <<"Dispatched", "Failed">>,
      <<"Upstream", "ExtractionPending">>, <<"Upstream", "Failed">>,
      <<"ExtractionPending", "Succeeded">>, <<"ExtractionPending", "Failed">> }

\* C10: a request only moves along Transitions; it issues at most one upstream
\* call; it enters ExtractionPending only from a call that returned; Succeeded
\* and Failed are never left; and a request that is being built or dispatched
\* reaches the call or an end, and one whose call has returned reaches an end.
C10_StateMachine ==
    /\ [][\A i \in Reqs : pc'[i] # pc[i] => <<pc[i], pc'[i]>> \in Transitions]_vars
    /\ [](\A i \in Reqs : calls[i] <= 1)
    /\ [](\A i \in Reqs : pc[i] \in {"Upstream", "ExtractionPending", "Succeeded"}
                              => calls[i] = 1)
    /\ [][\A i \in Reqs :
              pc'[i] = "ExtractionPending" /\ pc[i] # "ExtractionPending" =>
                  /\ pc[i] = "Upstream"
                  /\ backend[i].kind # "error"
                  /\ calls'[i] = 1]_vars
    /\ [][\A i \in Reqs : pc[i] \in Terminal => pc'[i] = pc[i] /\ calls'[i] = calls[i]]_vars
    /\ \A i \in Reqs :
           (pc[i] \in {"Building", "Dispatched"}) ~> (pc[i] \in {"Upstream"} \cup Terminal)
    /\ \A i \in Reqs : (pc[i] = "ExtractionPending") ~> (pc[i] \in Terminal)

\* C10 witness: every request has ended, one with a rating and one with a
\* failure after its single upstream call.
C10_Witness ==
    /\ loop = 0
    /\ \A i \in Reqs : pc[i] \in Terminal
    /\ \E i, j \in Reqs :
           /\ pc[i] = "Succeeded" /\ calls[i] = 1
           /\ pc[j] = "Failed" /\ calls[j] = 1

=============================================================================
